---- MODULE Spec2Model ----
(***************************************************************************)
(* Model of utility.py: the AbstractFactory registry (a class-level table  *)
(* shared by every subclass, keyed by "<module>.<class name>.<tag>") and   *)
(* the auto_field_assignment constructor decorator.                        *)
(*                                                                         *)
(* Python strings are TLA+ strings (concatenated with \o, so that          *)
(* canonicalize is the real concatenation and two keys can be compared).   *)
(* An Optional value is <<>> for None and <<v>> for the value v.           *)
(* Assertions are modelled as enabled (the interpreter's default mode).    *)
(***************************************************************************)
EXTENDS Naturals, Sequences, FiniteSets, TLC

VARIABLES registry, calls, tables, outcome, obj, init_call

vars == <<registry, calls, tables, outcome, obj, init_call>>

(***************************************************************************)
(* Bounds                                                                  *)
(***************************************************************************)
MaxRegisterCalls == 2
MaxPositional == 2

(***************************************************************************)
(* Optional values                                                         *)
(***************************************************************************)
None == <<>>
Some(v) == <<v>>

(***************************************************************************)
(* The universe of the registry model: factory classes, registrees, tags.  *)
(* A class is an object with an identity, a __module__ and a __name__.     *)
(* Shape and Solid are ordinary subclasses; Solid lives in the submodule   *)
(* pkg.Shape.  LocalShape is a second class object that is also named      *)
(* Shape in module pkg (for instance a class defined inside a function):   *)
(* __name__ is not the qualified name, so both report the same name.       *)
(***************************************************************************)
Shape == [id |-> 1, module |-> "pkg", name |-> "Shape"]
Solid == [id |-> 2, module |-> "pkg.Shape", name |-> "Solid"]
LocalShape == [id |-> 3, module |-> "pkg", name |-> "Shape"]
Classes == {Shape, Solid, LocalShape}

Circle == [id |-> 1, name |-> "Circle"]
Square == [id |-> 2, name |-> "Square"]
Registrees == {Circle, Square}

CustomTags == {None, Some(""), Some("sq"), Some("Solid.sq")}
CreateTags == {"", "sq", "Solid.sq", "Circle", "Square"}

\* the (*args, **kwargs) of a create call: none at all, or one positional
\* and one keyword argument
Arguments == {[args |-> <<>>, kwargs |-> {}],
              [args |-> <<1>>, kwargs |-> {<<"r", 2>>}]}

(***************************************************************************)
(* The universe of the decorator model: constructor signatures, the        *)
(* special_items given to the decorator, and the arguments of a call.      *)
(***************************************************************************)
FieldNames == {"a", "b"}
FieldValues == {1, 2}
Signatures == {<<"self", "a">>, <<"self", "a", "b">>}
SpecialItems == {None, Some(<<>>), Some(<<"a">>), Some(<<"b">>)}
InitArgs == UNION {[1..n -> FieldValues] : n \in 0..MaxPositional}
InitKwargs == UNION {[names -> FieldValues] : names \in SUBSET FieldNames}

(***************************************************************************)
(* auto_field_assignment                                                   *)
(***************************************************************************)
Range(seq) == {seq[i] : i \in DOMAIN seq}

Min(m, n) == IF m < n THEN m ELSE n

\* (param for param in signature.parameters if param != "self")
NonSelf(parameters) == SelectSeq(parameters, LAMBDA param : param # "self")

\* for name, value in zip(parameters, args[1:]): kwargs[name] = value
MergeArgs(parameters, args, kwargs) ==
    LET names == NonSelf(parameters)
        n == Min(Len(names), Len(args))
        zipped == {names[i] : i \in 1..n}
        position(name) == CHOOSE i \in 1..n : names[i] = name
    IN  [name \in DOMAIN kwargs \cup zipped |->
            IF name \in zipped THEN args[position(name)] ELSE kwargs[name]]

\* the loop "if name in special_items" raises TypeError on its first
\* iteration when special_items is None
LoopRaises(special_items, merged) == special_items = None /\ DOMAIN merged # {}

\* if name in special_items: continue
IsSpecial(special_items, name) == name \in Range(special_items[1])

\* setattr(self_, name, value) for every item the loop does not skip
AssignFields(special_items, merged) ==
    LET assigned == {name \in DOMAIN merged : ~IsSpecial(special_items, name)}
    IN  [name \in assigned |-> merged[name]]

\* func(self_, **kwargs) binds when the keywords are exactly the
\* parameters after the first one (which receives self_)
Binds(parameters, merged) ==
    /\ Len(parameters) >= 1
    /\ DOMAIN merged = Range(Tail(parameters))

(***************************************************************************)
(* AbstractFactory                                                         *)
(***************************************************************************)
\* registree.__name__
default_tag(registree) == registree.name

\* f"{cls.__module__}.{cls.__name__}"
namespace(cls) == cls.module \o "." \o cls.name

\* f"{cls.namespace()}.{tag}"
canonicalize(cls, tag) == namespace(cls) \o "." \o tag

\* bool(custom_tag) of an Optional[str]: None and "" are both falsy
Truthy(custom_tag) == custom_tag # None /\ custom_tag[1] # ""

\* variant: "custom_tag if custom_tag is not None else ..."
ChooseTag_IsNotNone(custom_tag, registree) ==
    IF custom_tag # None THEN custom_tag[1] ELSE default_tag(registree)

\* custom_tag if custom_tag else cls.default_tag(registree)
ChooseTag(custom_tag, registree) ==
    IF Truthy(custom_tag) THEN custom_tag[1] ELSE default_tag(registree)

\* variant: the assertion is dropped
NotRegistered_Dropped(reg, key) == TRUE

\* assert tag not in cls.registry
NotRegistered(reg, key) == key \notin DOMAIN reg

\* variant: the table is rebuilt with the new entry only
Store_Rebuilt(reg, key, registree) == [k \in {key} |-> registree]

\* cls.registry[tag] = registree
Store(reg, key, registree) ==
    [k \in DOMAIN reg \cup {key} |-> IF k = key THEN registree ELSE reg[k]]

\* registree(*args, **kwargs): the instance an opaque constructor builds
Construct(registree, arguments) ==
    [made_by |-> registree, args |-> arguments.args, kwargs |-> arguments.kwargs]

\* variant: the constructor is looked up without the tag
Invoke_AnyEntry(reg, key, arguments) ==
    Construct(reg[CHOOSE k \in DOMAIN reg : \A j \in DOMAIN reg : Len(k) <= Len(j)],
              arguments)

\* cls.registry[tag](*args, **kwargs)
Invoke(reg, key, arguments) == Construct(reg[key], arguments)

DuplicateMessage(key) ==
    "Duplicate tag registration found! Tag " \o key \o " has already been registered"

UnregisteredMessage(cls, key) ==
    "Tag " \o key \o " is not registered in the namespace " \o namespace(cls)

(***************************************************************************)
(* The reference design of the design notes: one table per class, keyed    *)
(* by the raw tag.                                                         *)
(***************************************************************************)
OwnTableHas(tbls, cls, tag) == tag \in DOMAIN tbls[cls]

OwnTableStore(tbls, cls, tag, registree) ==
    [tbls EXCEPT ![cls] =
        [t \in DOMAIN tbls[cls] \cup {tag} |->
            IF t = tag THEN registree ELSE tbls[cls][t]]]

EmptyTable == [k \in {} |-> Circle]

NoCall == [op |-> "none", cls |-> None, custom_tag |-> None, tag |-> "",
           key |-> "", registree |-> None, arguments |-> None,
           raised |-> "", message |-> "", returned |-> None,
           own_raised |-> "", own_returned |-> None]

NoFields == [name \in {} |-> 0]

NoInitCall == [special_items |-> None, parameters |-> <<>>, args |-> <<>>,
               kwargs |-> NoFields, raised |-> "", func_calls |-> 0,
               func_kwargs |-> NoFields, func_saw |-> NoFields, done |-> FALSE]

Init ==
    /\ registry = EmptyTable
    /\ calls = {}
    /\ tables = [c \in Classes |-> EmptyTable]
    /\ outcome = NoCall
    /\ obj = NoFields
    /\ init_call = NoInitCall

\* cls.register(custom_tag)(registree)
register(cls, custom_tag, registree) ==
    LET tag == ChooseTag(custom_tag, registree)
        key == canonicalize(cls, tag)
        ok == NotRegistered(registry, key)
        own_ok == ~OwnTableHas(tables, cls, tag)
    IN  /\ Cardinality(calls) < MaxRegisterCalls
        /\ registry' = IF ok THEN Store(registry, key, registree) ELSE registry
        /\ calls' = calls \cup
              {[cls |-> cls, custom_tag |-> custom_tag, tag |-> tag,
                registree |-> registree, ok |-> ok]}
        /\ tables' = IF own_ok THEN OwnTableStore(tables, cls, tag, registree)
                     ELSE tables
        /\ outcome' = [NoCall EXCEPT
              !.op = "register", !.cls = Some(cls), !.custom_tag = custom_tag,
              !.tag = tag, !.key = key, !.registree = Some(registree),
              !.raised = IF ok THEN "" ELSE "AssertionError",
              !.message = IF ok THEN "" ELSE DuplicateMessage(key),
              !.returned = IF ok THEN Some(registree) ELSE None,
              !.own_raised = IF own_ok THEN "" ELSE "AssertionError",
              !.own_returned = IF own_ok THEN Some(registree) ELSE None]
        /\ UNCHANGED <<obj, init_call>>

\* variant: a successful lookup takes the entry out of the table
create_Pop(cls, tag, arguments) ==
    LET key == canonicalize(cls, tag)
        found == key \in DOMAIN registry
    IN  /\ outcome' = [NoCall EXCEPT
              !.op = "create", !.cls = Some(cls), !.tag = tag, !.key = key,
              !.arguments = Some(arguments),
              !.raised = IF found THEN "" ELSE "NotImplementedError",
              !.message = IF found THEN "" ELSE UnregisteredMessage(cls, key),
              !.returned = IF found THEN Some(Invoke(registry, key, arguments))
                           ELSE None]
        /\ registry' = [k \in DOMAIN registry \ {key} |-> registry[k]]
        /\ UNCHANGED <<calls, tables, obj, init_call>>

\* cls.create(tag, *args, **kwargs)
create(cls, tag, arguments) ==
    LET key == canonicalize(cls, tag)
        found == key \in DOMAIN registry
        own_found == OwnTableHas(tables, cls, tag)
    IN  /\ outcome' = [NoCall EXCEPT
              !.op = "create", !.cls = Some(cls), !.tag = tag, !.key = key,
              !.arguments = Some(arguments),
              !.raised = IF found THEN "" ELSE "NotImplementedError",
              !.message = IF found THEN "" ELSE UnregisteredMessage(cls, key),
              !.returned = IF found THEN Some(Invoke(registry, key, arguments))
                           ELSE None,
              !.own_raised = IF own_found THEN "" ELSE "NotImplementedError",
              !.own_returned =
                  IF own_found THEN Some(Construct(tables[cls][tag], arguments))
                  ELSE None]
        /\ UNCHANGED <<registry, calls, tables, obj, init_call>>

\* decorated(self_, *args, **kwargs) on a new instance self_, for a
\* constructor func with the given signature decorated with
\* auto_field_assignment(special_items)
decorated(special_items, parameters, args, kwargs) ==
    LET merged == MergeArgs(parameters, args, kwargs)
        fails == LoopRaises(special_items, merged)
        fields == IF fails THEN NoFields ELSE AssignFields(special_items, merged)
        bound == ~fails /\ Binds(parameters, merged)
    IN  /\ obj' = fields
        /\ init_call' =
              [special_items |-> special_items, parameters |-> parameters,
               args |-> args, kwargs |-> kwargs,
               raised |-> IF bound THEN "" ELSE "TypeError",
               func_calls |-> IF bound THEN 1 ELSE 0,
               func_kwargs |-> IF bound THEN merged ELSE NoFields,
               func_saw |-> IF bound THEN fields ELSE NoFields,
               done |-> TRUE]
        /\ UNCHANGED <<registry, calls, tables, outcome>>

NextInit ==
    \E special_items \in SpecialItems, parameters \in Signatures,
       args \in InitArgs, kwargs \in InitKwargs :
          decorated(special_items, parameters, args, kwargs)

SpecInit == Init /\ [][NextInit]_vars

Next ==
    \/ \E cls \in Classes, custom_tag \in CustomTags, registree \in Registrees :
          register(cls, custom_tag, registree)
    \/ \E cls \in Classes, tag \in CreateTags, arguments \in Arguments :
          create(cls, tag, arguments)

Spec == Init /\ [][Next]_vars

(***************************************************************************)
(* History of the register calls, as the properties below read it.         *)
(***************************************************************************)
\* some register call through cls has used tag (whether or not it failed)
Used(cls, tag) == \E c \in calls : c.cls = cls /\ c.tag = tag

\* the register calls through cls that succeeded
Registrations(cls) == {c \in calls : c.ok /\ c.cls = cls}

Contains(s, sub) ==
    \E i \in 1..(Len(s) + 1 - Len(sub)) : SubSeq(s, i, i + Len(sub) - 1) = sub

(***************************************************************************)
(* C1: once a constructor is registered through a class under a tag, a     *)
(* later register through the same class under the same tag raises the     *)
(* duplicate-registration AssertionError and leaves the table as it was,   *)
(* and a later create of that tag through that class invokes the           *)
(* constructor registered first.                                           *)
(***************************************************************************)
C1_DuplicateStep ==
    \A cls \in Classes : \A c \in Registrations(cls) :
        /\ (outcome'.op = "register" /\ outcome'.cls = Some(cls)
              /\ outcome'.tag = c.tag)
           => /\ outcome'.raised = "AssertionError"
              /\ Contains(outcome'.message, "Duplicate tag registration")
              /\ registry' = registry
        /\ (outcome'.op = "create" /\ outcome'.cls = Some(cls)
              /\ outcome'.tag = c.tag)
           => /\ outcome'.raised = ""
              /\ outcome'.returned # None
              /\ outcome'.returned[1].made_by = c.registree

C1_DuplicateRejected == [][C1_DuplicateStep]_vars

\* a create that follows a rejected second registration with another
\* constructor, and that invoked the first one
C1_Witness ==
    /\ outcome.op = "create"
    /\ outcome.raised = ""
    /\ \E c \in Registrations(outcome.cls[1]) :
          /\ c.tag = outcome.tag
          /\ outcome.returned[1].made_by = c.registree
          /\ \E d \in calls : /\ ~d.ok
                              /\ d.cls = c.cls
                              /\ d.tag = c.tag
                              /\ d.registree # c.registree

(***************************************************************************)
(* C2: the table only grows: a key of the table is still a key after       *)
(* every step and still maps to the same constructor.                      *)
(***************************************************************************)
C2_GrowStep ==
    \A k \in DOMAIN registry : k \in DOMAIN registry' /\ registry'[k] = registry[k]

C2_TableOnlyGrows == [][C2_GrowStep]_vars

\* a second entry was added, through another class, next to a first one
C2_Witness ==
    /\ Cardinality(DOMAIN registry) >= 2
    /\ \E c, d \in calls : c.ok /\ d.ok /\ c.cls # d.cls
    /\ outcome.op = "register"
    /\ outcome.raised = ""

(***************************************************************************)
(* C3: create through a class of a tag that no register call through that  *)
(* class has used raises NotImplementedError, invokes no constructor, and  *)
(* its message contains the canonical key.                                 *)
(***************************************************************************)
C3_UnregisteredTagRaises ==
    (outcome.op = "create" /\ ~Used(outcome.cls[1], outcome.tag))
    => /\ outcome.raised = "NotImplementedError"
       /\ outcome.returned = None
       /\ Contains(outcome.message, canonicalize(outcome.cls[1], outcome.tag))

(***************************************************************************)
(* C4: create through a class of a tag under which a constructor was       *)
(* registered through that class returns what that constructor builds      *)
(* from exactly the arguments of the call, whatever else is registered.    *)
(***************************************************************************)
C4_CreateInvokesRegistered ==
    outcome.op = "create"
    => \A c \in Registrations(outcome.cls[1]) :
          c.tag = outcome.tag
          => /\ outcome.raised = ""
             /\ outcome.returned = Some(Construct(c.registree, outcome.arguments[1]))

\* a create with arguments that found its constructor among several entries
C4_Witness ==
    /\ outcome.op = "create"
    /\ outcome.raised = ""
    /\ outcome.arguments[1].args # <<>>
    /\ outcome.arguments[1].kwargs # {}
    /\ Cardinality(DOMAIN registry) >= 2
    /\ \E c \in Registrations(outcome.cls[1]) : c.tag = outcome.tag

(***************************************************************************)
(* C5: two distinct classes never give the same canonical key to the same  *)
(* tag, so a tag registered through one class does not make the register   *)
(* of that tag through another class fail, and does not answer a create    *)
(* through another class.                                                  *)
(***************************************************************************)
C5_SameTagNoCollision ==
    \A A \in Classes, B \in Classes :
        A # B => \A c \in Registrations(A) :
            /\ canonicalize(A, c.tag) # canonicalize(B, c.tag)
            /\ (outcome.op = "register" /\ outcome.cls = Some(B)
                  /\ outcome.tag = c.tag /\ Registrations(B) = {})
               => outcome.raised = ""
            /\ (outcome.op = "create" /\ outcome.cls = Some(B)
                  /\ outcome.tag = c.tag /\ outcome.raised = "")
               => \E d \in Registrations(B) :
                     d.tag = c.tag /\ outcome.returned[1].made_by = d.registree

(***************************************************************************)
(* C6: the canonical key of a registration is never the canonical key of   *)
(* any tag of a class with a different namespace, so a create only finds   *)
(* an entry registered through a class with the namespace of its own.      *)
(***************************************************************************)
C6_KeysNeverCollide ==
    /\ \A c \in calls : \A B \in Classes, t \in CreateTags :
          (c.ok /\ namespace(B) # namespace(c.cls))
          => canonicalize(B, t) # canonicalize(c.cls, c.tag)
    /\ (outcome.op = "create" /\ outcome.raised = "")
       => \E c \in calls : /\ c.ok
                           /\ namespace(c.cls) = namespace(outcome.cls[1])
                           /\ outcome.returned[1].made_by = c.registree
    /\ (outcome.op = "register" /\ outcome.raised # "")
       => \E c \in calls : /\ c.ok
                           /\ namespace(c.cls) = namespace(outcome.cls[1])

(***************************************************************************)
(* C7 as stated: register adds exactly one entry, under the custom tag     *)
(* whenever one is supplied and under the constructor's name otherwise;    *)
(* create of the tag of a registration invokes its constructor, and        *)
(* create of the name of a constructor registered under another tag        *)
(* raises unless another registration put that name in the table.          *)
(***************************************************************************)
SuppliedTag(custom_tag, registree) ==
    IF custom_tag # None THEN custom_tag[1] ELSE registree.name

NonEmptySuppliedTag(custom_tag, registree) ==
    IF custom_tag # None /\ custom_tag[1] # "" THEN custom_tag[1]
    ELSE registree.name

C7_RegisterStep(Tag(_, _)) ==
    (outcome'.op = "register" /\ outcome'.raised = "")
    => LET key == canonicalize(outcome'.cls[1],
                               Tag(outcome'.custom_tag, outcome'.registree[1]))
       IN  /\ DOMAIN registry' = DOMAIN registry \cup {key}
           /\ key \notin DOMAIN registry
           /\ registry'[key] = outcome'.registree[1]

C7_CreateState(Tag(_, _)) ==
    outcome.op = "create"
    => \A c \in Registrations(outcome.cls[1]) :
          LET tag == Tag(c.custom_tag, c.registree)
              name == c.registree.name
              others == {d \in calls \ {c} : d.ok}
          IN  /\ outcome.tag = tag
                 => /\ outcome.raised = ""
                    /\ outcome.returned[1].made_by = c.registree
              /\ (outcome.tag = name /\ tag # name
                    /\ \A d \in others :
                          canonicalize(d.cls, d.tag) # canonicalize(c.cls, name))
                 => outcome.raised = "NotImplementedError"

C7_TagIsCustomWheneverSupplied ==
    [][C7_RegisterStep(SuppliedTag) /\ C7_CreateState(SuppliedTag)']_vars

(***************************************************************************)
(* C7 amended: the entry is under the custom tag when a non-empty one is   *)
(* supplied, and under the constructor's name when the custom tag is       *)
(* absent or empty; the rest as stated.                                    *)
(***************************************************************************)
C7_TagIsCustomWhenNonEmpty ==
    [][C7_RegisterStep(NonEmptySuppliedTag)
         /\ C7_CreateState(NonEmptySuppliedTag)']_vars

\* Square was registered under "sq" only, a constructor was registered
\* with an empty custom tag, and create("Square") raised
C7_Witness ==
    /\ outcome.op = "create"
    /\ outcome.tag = "Square"
    /\ outcome.raised = "NotImplementedError"
    /\ \E c \in Registrations(outcome.cls[1]) :
          c.custom_tag = Some("sq") /\ c.registree = Square
    /\ \E c \in calls : c.ok /\ c.custom_tag = Some("")

(***************************************************************************)
(* C8: every call has the same outcome with the shared table as with one   *)
(* table per class keyed by the raw tag.                                   *)
(***************************************************************************)
C8_SameAsOwnTables ==
    /\ outcome.raised = outcome.own_raised
    /\ outcome.returned = outcome.own_returned

(***************************************************************************)
(* C9: a create step leaves the table as it was, whether it invokes a      *)
(* constructor or raises.                                                  *)
(***************************************************************************)
C9_CreateStep == outcome'.op = "create" => registry' = registry

C9_CreateLeavesTable == [][C9_CreateStep]_vars

\* a create that found its constructor in a table with entries
C9_Witness ==
    /\ outcome.op = "create"
    /\ outcome.raised = ""
    /\ DOMAIN registry # {}
    /\ canonicalize(outcome.cls[1], outcome.tag) \in DOMAIN registry

(***************************************************************************)
(* C10: a call of a decorated constructor that supplies each parameter     *)
(* once (by position or by keyword), and at least one, assigns every       *)
(* supplied parameter outside special_items to the instance before the     *)
(* constructor body runs, assigns none of special_items, and runs the      *)
(* body once with all the supplied arguments.  No special_items (the       *)
(* default) means that nothing is special.                                 *)
(***************************************************************************)
WellFormedCall(call) ==
    /\ call.done
    /\ Len(call.args) + Cardinality(DOMAIN call.kwargs) >= 1
    /\ Len(call.args) <= Len(call.parameters) - 1
    /\ DOMAIN call.kwargs =
          {call.parameters[i] : i \in (Len(call.args) + 2)..Len(call.parameters)}

Supplied(call) ==
    [name \in Range(Tail(call.parameters)) |->
        IF name \in DOMAIN call.kwargs THEN call.kwargs[name]
        ELSE call.args[CHOOSE i \in DOMAIN call.args : call.parameters[i + 1] = name]]

SpecialNames(call) ==
    IF call.special_items = None THEN {} ELSE Range(call.special_items[1])

C10_FieldsAssigned ==
    WellFormedCall(init_call)
    => LET supplied == Supplied(init_call)
           fields == DOMAIN supplied \ SpecialNames(init_call)
       IN  /\ init_call.raised = ""
           /\ init_call.func_calls = 1
           /\ init_call.func_kwargs = supplied
           /\ init_call.func_saw = [name \in fields |-> supplied[name]]
           /\ obj = [name \in fields |-> supplied[name]]

====
